---------------------------- MODULE Spec2Model ----------------------------
(***************************************************************************)
(* Terra Tranquil API (src/main.py, src/schemas.py).                       *)
(*                                                                         *)
(* The state is the document store (collections business, visit, impact)   *)
(* and the request handlers in flight.  FastAPI runs the synchronous        *)
(* handlers on a thread pool, so the handlers of different requests         *)
(* interleave between their store operations; every store operation         *)
(* (find_one, insert_one, update_one) is one indivisible step.  A           *)
(* collection is the sequence of its documents in insertion order;          *)
(* find_one and update_one act on the first document the filter matches.    *)
(***************************************************************************)
EXTENDS Integers, Sequences, FiniteSets, TLC

VARIABLES
    db_up,      \* "db is not None": the store handle exists
    business,   \* db.business
    visit,      \* db.visit
    impact,     \* db.impact
    pc,         \* per request: the handler's position
    req,        \* per request: the handler's arguments
    local,      \* per request: the handler's local variables
    result      \* per request: the HTTP response, once returned

vars == <<db_up, business, visit, impact, pc, req, local, result>>

-----------------------------------------------------------------------------
(* Bounds of the model *)

MaxCalls == 2          \* requests of the general specification
MaxVisitCalls == 3     \* concurrent log_visit requests of SpecVisits
MaxSeqCalls == 21      \* consecutive log_visit requests of SpecSeq
MaxTierVisits == 25    \* largest stored visits count of SpecTier
MaxChecks == 6         \* longest eco checklist of SpecRegister

-----------------------------------------------------------------------------
(* Values *)

None == "None"                         \* Python None, for an Optional[str]
Missing == -1                          \* a field the document does not have
Users == {"u1", "u2"}
Usernames == {"alice", "bob"}
OptUsernames == {None, "bob"}     \* get_impact's optional username
\* Request strings for a business id: the id of the seeded business (in upper
\* case hex), a well-formed id no business has at startup, a malformed string.
IdStrs == {"ID1", "id2", "zz"}

\* ObjectId(id_str): the parsed id, or Missing when bson rejects the string.
ObjectId(id_str) ==
    CASE id_str \in {"id1", "ID1"} -> 1
      [] id_str \in {"id2", "ID2"} -> 2
      [] id_str \in {"id3", "ID3"} -> 3
      [] id_str \in {"id4", "ID4"} -> 4
      [] OTHER -> Missing

\* str(oid): the canonical lower case form.
OidStr(oid) ==
    CASE oid = 1 -> "id1"
      [] oid = 2 -> "id2"
      [] oid = 3 -> "id3"
      [] oid = 4 -> "id4"
      [] OTHER -> "?"

\* to_obj_id: raise HTTPException(400) (here: Missing) on a malformed id.
to_obj_id(id_str) == ObjectId(id_str)

NoReq == [op |-> "none", user_id |-> "", username |-> "", business_id |-> "",
          eco_checks |-> <<>>]
NoDoc == [kind |-> "none"]              \* None, where a document is expected
NoLocal == [bdoc |-> NoDoc, visits |-> Missing, level |-> Missing,
            eco_score |-> Missing, bid |-> Missing]
NoResult == [op |-> "none", status |-> 0, body |-> NoDoc]

Response(op, status, body) == [op |-> op, status |-> status, body |-> body]

\* schemas.Impact: the defaults of a new Impact document.
ImpactSchema(user_id, username) ==
    [kind |-> "impact", user_id |-> user_id, username |-> username, visits |-> 0,
     eco_points |-> 0, community_impact |-> 0, terra_level |-> 0]

\* schemas.Visit
VisitSchema(user_id, business_id, business_name, eco_points) ==
    [kind |-> "visit", user_id |-> user_id, business_id |-> business_id,
     business_name |-> business_name, eco_points |-> eco_points]

\* schemas.Business: eco_score: int = Field(ge=0, le=100, default=80)
BusinessValid(eco_score) == eco_score >= 0 /\ eco_score <= 100
DefaultEcoScore == 80

\* log_visit: eco_points=10 of the Visit it builds
VisitEcoPoints == 10

\* SAMPLE_BUSINESSES, first entry, as seed_data stores it.
SeedBusiness ==
    [kind |-> "business", id |-> 1, name |-> "Leaf & Latte",
     eco_checks |-> <<TRUE, TRUE, TRUE, TRUE, FALSE>>, eco_score |-> 92]

-----------------------------------------------------------------------------
(* The store *)

\* Indexes of the documents of a collection matching a user_id filter.
Matching(coll, user_id) == {i \in 1..Len(coll) : coll[i].user_id = user_id}

Min(S) == CHOOSE x \in S : \A y \in S : x <= y

\* collection.find_one({"user_id": user_id}): index of the first match, 0 if none
FindOne(coll, user_id) ==
    IF Matching(coll, user_id) = {} THEN 0 ELSE Min(Matching(coll, user_id))

\* db.business.find_one({"_id": oid}): index of the match, 0 if none
FindBusiness(oid) ==
    IF \E i \in 1..Len(business) : business[i].id = oid
    THEN CHOOSE i \in 1..Len(business) : business[i].id = oid
    ELSE 0

\* create_document(collection, data): insert_one
create_document(coll, doc) == Append(coll, doc)

\* UpsertInc with "$set" where the code has "$inc": the counters are overwritten.
UpsertInc_SetCounters(coll, user_id, username, pts) ==
    LET i == IF Matching(coll, user_id) = {} THEN 0
             ELSE CHOOSE x \in Matching(coll, user_id) :
                      \A y \in Matching(coll, user_id) : x <= y
    IN
    IF i = 0
    THEN Append(coll, [kind |-> "impact", user_id |-> user_id, username |-> username,
                       visits |-> 1, eco_points |-> pts, community_impact |-> 1,
                       terra_level |-> -1])
    ELSE [coll EXCEPT ![i].visits = 1, ![i].eco_points = pts,
                      ![i].community_impact = 1]

\* UpsertInc with username under "$set" where the code has "$setOnInsert".
UpsertInc_SetUsername(coll, user_id, username, pts) ==
    LET i == IF Matching(coll, user_id) = {} THEN 0
             ELSE CHOOSE x \in Matching(coll, user_id) :
                      \A y \in Matching(coll, user_id) : x <= y
    IN
    IF i = 0
    THEN Append(coll, [kind |-> "impact", user_id |-> user_id, username |-> username,
                       visits |-> 1, eco_points |-> pts, community_impact |-> 1,
                       terra_level |-> -1])
    ELSE [coll EXCEPT ![i].visits = @ + 1,
                      ![i].eco_points = @ + pts,
                      ![i].community_impact = @ + 1,
                      ![i].username = username]

\* update_one(filter, {"$setOnInsert": {user_id, username}, "$inc": {visits: 1,
\* eco_points: pts, community_impact: 1}}, upsert=True)
UpsertInc(coll, user_id, username, pts) ==
    LET i == FindOne(coll, user_id) IN
    IF i = 0
    THEN Append(coll, [kind |-> "impact", user_id |-> user_id, username |-> username,
                       visits |-> 1, eco_points |-> pts, community_impact |-> 1,
                       terra_level |-> Missing])
    ELSE [coll EXCEPT ![i].visits = @ + 1,
                      ![i].eco_points = @ + pts,
                      ![i].community_impact = @ + 1]

\* update_one(filter, {"$set": {"terra_level": level}})
SetLevel(coll, user_id, level) ==
    LET i == FindOne(coll, user_id) IN
    IF i = 0 THEN coll ELSE [coll EXCEPT ![i].terra_level = level]

-----------------------------------------------------------------------------
(* log_visit *)

\* The tier rule with strict comparisons (an off-by-one at every threshold).
deriveLevel_Strict(visits) ==
    IF visits > 20 THEN 3
    ELSE IF visits > 10 THEN 2
    ELSE IF visits > 3 THEN 1
    ELSE 0

\* The tier rule of log_visit (level = 0; if/elif chain on visits).
deriveLevel(visits) ==
    IF visits >= 20 THEN 3
    ELSE IF visits >= 10 THEN 2
    ELSE IF visits >= 3 THEN 1
    ELSE 0

Return(c, op, status, body) ==
    /\ pc' = [pc EXCEPT ![c] = "done"]
    /\ req' = [req EXCEPT ![c] = NoReq]
    /\ local' = [local EXCEPT ![c] = NoLocal]
    /\ result' = [result EXCEPT ![c] = Response(op, status, body)]

\* Lines 221-225: db check, to_obj_id, business lookup.
LogVisitFindBusiness(c, user_id, username, business_id) ==
    /\ pc[c] = "idle"
    /\ UNCHANGED <<db_up, business, visit, impact>>
    /\ IF ~db_up
       THEN Return(c, "log_visit", 500, NoDoc)
       ELSE IF to_obj_id(business_id) = Missing
       THEN Return(c, "log_visit", 400, NoDoc)
       ELSE /\ pc' = [pc EXCEPT ![c] = "check_business"]
            /\ req' = [req EXCEPT ![c] =
                          [op |-> "log_visit", user_id |-> user_id,
                           username |-> username, business_id |-> business_id,
                           eco_checks |-> <<>>]]
            /\ local' = [local EXCEPT ![c].bdoc =
                            IF FindBusiness(to_obj_id(business_id)) = 0 THEN NoDoc
                            ELSE business[FindBusiness(to_obj_id(business_id))]]
            /\ UNCHANGED result

\* The check placed after the insert of the Visit: a Visit is stored for an
\* unknown business before the request ends with 404.
LogVisitCheckBusiness_VisitFirst(c) ==
    /\ pc[c] = "check_business"
    /\ UNCHANGED <<db_up, business, impact>>
    /\ IF local[c].bdoc.kind = "none"
       THEN /\ visit' = Append(visit, [kind |-> "visit", user_id |-> req[c].user_id,
                                       business_id |-> req[c].business_id,
                                       business_name |-> None, eco_points |-> 10])
            /\ pc' = [pc EXCEPT ![c] = "done"]
            /\ req' = [req EXCEPT ![c] = NoReq]
            /\ local' = [local EXCEPT ![c] = NoLocal]
            /\ result' = [result EXCEPT ![c] = [op |-> "log_visit", status |-> 404,
                                                body |-> NoDoc]]
       ELSE /\ pc' = [pc EXCEPT ![c] = "create_visit"]
            /\ UNCHANGED <<visit, req, local, result>>

\* Lines 226-227: if not bdoc: raise HTTPException(404).
LogVisitCheckBusiness(c) ==
    /\ pc[c] = "check_business"
    /\ UNCHANGED <<db_up, business, visit, impact>>
    /\ IF local[c].bdoc.kind = "none"
       THEN Return(c, "log_visit", 404, NoDoc)
       ELSE /\ pc' = [pc EXCEPT ![c] = "create_visit"]
            /\ UNCHANGED <<req, local, result>>

\* log_visit without the insert of the Visit.
LogVisitCreateVisit_Skip(c) ==
    /\ pc[c] = "create_visit"
    /\ pc' = [pc EXCEPT ![c] = "upsert"]
    /\ UNCHANGED <<db_up, business, visit, impact, req, local, result>>

\* Lines 228-236: build the Visit and insert it.
LogVisitCreateVisit(c) ==
    /\ pc[c] = "create_visit"
    /\ visit' = create_document(visit,
                    VisitSchema(req[c].user_id, req[c].business_id,
                                local[c].bdoc.name, VisitEcoPoints))
    /\ pc' = [pc EXCEPT ![c] = "upsert"]
    /\ UNCHANGED <<db_up, business, impact, req, local, result>>

\* Lines 238-249: upsert the impact counters.
LogVisitUpsert(c) ==
    /\ pc[c] = "upsert"
    /\ impact' = UpsertInc(impact, req[c].user_id, req[c].username, VisitEcoPoints)
    /\ pc' = [pc EXCEPT ![c] = "read"]
    /\ UNCHANGED <<db_up, business, visit, req, local, result>>

\* The level computed from the count before this request's increment.
LogVisitReadVisits_Stale(c) ==
    /\ pc[c] = "read"
    /\ Matching(impact, req[c].user_id) # {}
    /\ LET i == CHOOSE x \in Matching(impact, req[c].user_id) :
                    \A y \in Matching(impact, req[c].user_id) : x <= y
           visits == impact[i].visits - 1
       IN local' = [local EXCEPT ![c].visits = visits,
                                 ![c].level = IF visits >= 20 THEN 3
                                              ELSE IF visits >= 10 THEN 2
                                              ELSE IF visits >= 3 THEN 1
                                              ELSE 0]
    /\ pc' = [pc EXCEPT ![c] = "set_level"]
    /\ UNCHANGED <<db_up, business, visit, impact, req, result>>

\* Lines 251-259: read the impact back and compute the level.
LogVisitReadVisits(c) ==
    /\ pc[c] = "read"
    /\ FindOne(impact, req[c].user_id) # 0
    /\ LET visits == impact[FindOne(impact, req[c].user_id)].visits IN
       local' = [local EXCEPT ![c].visits = visits, ![c].level = deriveLevel(visits)]
    /\ pc' = [pc EXCEPT ![c] = "set_level"]
    /\ UNCHANGED <<db_up, business, visit, impact, req, result>>

\* Line 260: store the level.
LogVisitSetLevel(c) ==
    /\ pc[c] = "set_level"
    /\ impact' = SetLevel(impact, req[c].user_id, local[c].level)
    /\ pc' = [pc EXCEPT ![c] = "reread"]
    /\ UNCHANGED <<db_up, business, visit, req, local, result>>

\* Lines 261-263: read the impact again and return it.
LogVisitReturn(c) ==
    /\ pc[c] = "reread"
    /\ FindOne(impact, req[c].user_id) # 0
    /\ Return(c, "log_visit", 200, impact[FindOne(impact, req[c].user_id)])
    /\ UNCHANGED <<db_up, business, visit, impact>>

-----------------------------------------------------------------------------
(* get_impact *)

\* username or "Guest"
UsernameOrGuest(username) == IF username \in {None, ""} THEN "Guest" ELSE username

\* Lines 198-202 and 206-207: db check, lookup, return of an existing document.
GetImpactFind(c, user_id, username) ==
    /\ pc[c] = "idle"
    /\ UNCHANGED <<db_up, business, visit, impact>>
    /\ IF ~db_up
       THEN Return(c, "get_impact", 200, ImpactSchema(user_id, UsernameOrGuest(username)))
       ELSE IF FindOne(impact, user_id) # 0
       THEN Return(c, "get_impact", 200, impact[FindOne(impact, user_id)])
       ELSE /\ pc' = [pc EXCEPT ![c] = "create_impact"]
            /\ req' = [req EXCEPT ![c] =
                          [op |-> "get_impact", user_id |-> user_id,
                           username |-> username, business_id |-> "",
                           eco_checks |-> <<>>]]
            /\ UNCHANGED <<local, result>>

\* Lines 203-205: no document was found: insert a zero-valued one and return it.
GetImpactCreate(c) ==
    /\ pc[c] = "create_impact"
    /\ LET imp == ImpactSchema(req[c].user_id, UsernameOrGuest(req[c].username)) IN
         /\ impact' = create_document(impact, imp)
         /\ Return(c, "get_impact", 200, imp)
    /\ UNCHANGED <<db_up, business, visit>>

-----------------------------------------------------------------------------
(* register_business *)

\* sum(1 for c in checks if c)
RECURSIVE CountTrue(_)
CountTrue(checks) ==
    IF checks = <<>> THEN 0
    ELSE (IF Head(checks) THEN 1 ELSE 0) + CountTrue(Tail(checks))

\* The score counting every entry of the checklist, true or false.
EcoScore_CountAll(checks) ==
    IF checks # <<>> THEN 60 + Len(checks) * 8 ELSE 80

\* Lines 189-191: the score of the record to store.
EcoScore(checks) ==
    IF checks # <<>> THEN 60 + CountTrue(checks) * 8 ELSE DefaultEcoScore

\* Lines 187-191: the request data, with the score of a non-empty checklist.
\* BusinessCreate has no eco_score field, so an empty checklist leaves the
\* schema's default.
RegisterBusinessScore(c, eco_checks) ==
    /\ pc[c] = "idle"
    /\ pc' = [pc EXCEPT ![c] = "create_business"]
    /\ req' = [req EXCEPT ![c] =
                  [op |-> "register_business", user_id |-> "", username |-> "",
                   business_id |-> "", eco_checks |-> eco_checks]]
    /\ local' = [local EXCEPT ![c].eco_score = EcoScore(eco_checks)]
    /\ UNCHANGED <<db_up, business, visit, impact, result>>

\* Line 192: schema validation, insert.  A ValidationError of BusinessSchema
\* and a create_document without a store both end the request with 500.
RegisterBusinessCreate(c) ==
    /\ pc[c] = "create_business"
    /\ UNCHANGED <<db_up, visit, impact>>
    /\ IF ~BusinessValid(local[c].eco_score) \/ ~db_up
       THEN /\ Return(c, "register_business", 500, NoDoc)
            /\ UNCHANGED business
       ELSE /\ business' = create_document(business,
                               [kind |-> "business", id |-> Len(business) + 1,
                                name |-> "Shop", eco_checks |-> req[c].eco_checks,
                                eco_score |-> local[c].eco_score])
            /\ pc' = [pc EXCEPT ![c] = "find_business"]
            /\ local' = [local EXCEPT ![c].bid = Len(business) + 1]
            /\ UNCHANGED <<req, result>>

\* business_doc_to_response: the document with "id" = str(_id).
business_doc_to_response(doc) == [doc EXCEPT !.id = OidStr(doc.id)]

\* Lines 193-194: read the stored record back and return it.
RegisterBusinessReturn(c) ==
    /\ pc[c] = "find_business"
    /\ FindBusiness(local[c].bid) # 0
    /\ Return(c, "register_business", 200,
              business_doc_to_response(business[FindBusiness(local[c].bid)]))
    /\ UNCHANGED <<db_up, business, visit, impact>>

-----------------------------------------------------------------------------
(* Store failure: a store operation of a handler in flight raises; the     *)
(* handler has no except clause, so the request ends with HTTP 500.        *)

StoreFail(c) ==
    /\ db_up
    /\ pc[c] \in {"create_visit", "upsert", "read", "set_level", "reread",
                 "create_impact", "find_business"}
    /\ Return(c, req[c].op, 500, NoDoc)
    /\ UNCHANGED <<db_up, business, visit, impact>>

-----------------------------------------------------------------------------
(* Specifications *)

Idle(calls) ==
    /\ pc = [c \in calls |-> "idle"]
    /\ req = [c \in calls |-> NoReq]
    /\ local = [c \in calls |-> NoLocal]
    /\ result = [c \in calls |-> NoResult]

\* seed_data: on startup the business collection is seeded when there is a store.
Init ==
    /\ db_up \in BOOLEAN
    /\ business = IF db_up THEN <<SeedBusiness>> ELSE <<>>
    /\ visit = <<>>
    /\ impact = <<>>
    /\ Idle(1..MaxCalls)

RegisterChecks == {<<TRUE, FALSE>>}

Next ==
    \/ \E c \in DOMAIN pc, u \in Users, n \in Usernames, b \in IdStrs :
          LogVisitFindBusiness(c, u, n, b)
    \/ \E c \in DOMAIN pc : LogVisitCheckBusiness(c)
    \/ \E c \in DOMAIN pc : LogVisitCreateVisit(c)
    \/ \E c \in DOMAIN pc : LogVisitUpsert(c)
    \/ \E c \in DOMAIN pc : LogVisitReadVisits(c)
    \/ \E c \in DOMAIN pc : LogVisitSetLevel(c)
    \/ \E c \in DOMAIN pc : LogVisitReturn(c)
    \/ \E c \in DOMAIN pc, u \in Users, n \in OptUsernames : GetImpactFind(c, u, n)
    \/ \E c \in DOMAIN pc : GetImpactCreate(c)
    \/ \E c \in DOMAIN pc, k \in RegisterChecks : RegisterBusinessScore(c, k)
    \/ \E c \in DOMAIN pc : RegisterBusinessCreate(c)
    \/ \E c \in DOMAIN pc : RegisterBusinessReturn(c)
    \/ \E c \in DOMAIN pc : StoreFail(c)

Spec == Init /\ [][Next]_vars

-----------------------------------------------------------------------------
(* SpecVisits: concurrent log_visit requests of one user for the seeded    *)
(* business, on an empty impact collection, with the store working.        *)

InitVisits ==
    /\ db_up = TRUE
    /\ business = <<SeedBusiness>>
    /\ visit = <<>>
    /\ impact = <<>>
    /\ Idle(1..MaxVisitCalls)

NextVisits ==
    \/ \E c \in DOMAIN pc, n \in Usernames : LogVisitFindBusiness(c, "u1", n, "id1")
    \/ \E c \in DOMAIN pc : LogVisitCheckBusiness(c)
    \/ \E c \in DOMAIN pc : LogVisitCreateVisit(c)
    \/ \E c \in DOMAIN pc : LogVisitUpsert(c)
    \/ \E c \in DOMAIN pc : LogVisitReadVisits(c)
    \/ \E c \in DOMAIN pc : LogVisitSetLevel(c)
    \/ \E c \in DOMAIN pc : LogVisitReturn(c)

SpecVisits == InitVisits /\ [][NextVisits]_vars

-----------------------------------------------------------------------------
(* SpecSeq: log_visit requests of one user run one after another: request  *)
(* c starts once the requests before it have returned.                     *)

InitSeq ==
    /\ db_up = TRUE
    /\ business = <<SeedBusiness>>
    /\ visit = <<>>
    /\ impact = <<>>
    /\ Idle(1..MaxSeqCalls)

NextSeq ==
    \/ \E c \in DOMAIN pc, n \in Usernames :
          /\ \A d \in 1..(c - 1) : pc[d] = "done"
          /\ LogVisitFindBusiness(c, "u1", n, "ID1")
    \/ \E c \in DOMAIN pc : LogVisitCheckBusiness(c)
    \/ \E c \in DOMAIN pc : LogVisitCreateVisit(c)
    \/ \E c \in DOMAIN pc : LogVisitUpsert(c)
    \/ \E c \in DOMAIN pc : LogVisitReadVisits(c)
    \/ \E c \in DOMAIN pc : LogVisitSetLevel(c)
    \/ \E c \in DOMAIN pc : LogVisitReturn(c)

SpecSeq == InitSeq /\ [][NextSeq]_vars

-----------------------------------------------------------------------------
(* SpecTier: the tier rule on every visits count 0..MaxTierVisits.  Two     *)
(* log_visit requests, of two users whose stored counts are drawn from the  *)
(* range, are about to read the count back and compute the level.           *)

VisitOf(user_id) == VisitSchema(user_id, "id1", SeedBusiness.name, VisitEcoPoints)

StoredImpact(user_id, v) ==
    [kind |-> "impact", user_id |-> user_id, username |-> "alice", visits |-> v,
     eco_points |-> v * VisitEcoPoints, community_impact |-> v,
     terra_level |-> IF v = 0 THEN 0 ELSE deriveLevel(v - 1)]

InitTier ==
    /\ db_up = TRUE
    /\ business = <<SeedBusiness>>
    /\ \E v1 \in 0..MaxTierVisits, v2 \in 0..MaxTierVisits :
         /\ visit = [i \in 1..(v1 + v2) |-> IF i <= v1 THEN VisitOf("u1") ELSE VisitOf("u2")]
         /\ impact = <<StoredImpact("u1", v1), StoredImpact("u2", v2)>>
    /\ pc = [c \in 1..2 |-> "read"]
    /\ req = [c \in 1..2 |->
                [op |-> "log_visit", user_id |-> IF c = 1 THEN "u1" ELSE "u2",
                 username |-> "alice", business_id |-> "id1", eco_checks |-> <<>>]]
    /\ local = [c \in 1..2 |-> [NoLocal EXCEPT !.bdoc = SeedBusiness]]
    /\ result = [c \in 1..2 |-> NoResult]

NextTier == \E c \in DOMAIN pc : LogVisitReadVisits(c)

SpecTier == InitTier /\ [][NextTier]_vars

-----------------------------------------------------------------------------
(* SpecRegister: register_business on every checklist of up to MaxChecks    *)
(* entries.                                                                 *)

RECURSIVE BoolSeqs(_)
BoolSeqs(n) ==
    IF n = 0 THEN {<<>>}
    ELSE BoolSeqs(n - 1) \cup [1..n -> BOOLEAN]

InitRegister ==
    /\ db_up \in BOOLEAN
    /\ business = IF db_up THEN <<SeedBusiness>> ELSE <<>>
    /\ visit = <<>>
    /\ impact = <<>>
    /\ Idle({1})

NextRegister ==
    \/ \E c \in DOMAIN pc, k \in BoolSeqs(MaxChecks) : RegisterBusinessScore(c, k)
    \/ \E c \in DOMAIN pc : RegisterBusinessCreate(c)
    \/ \E c \in DOMAIN pc : RegisterBusinessReturn(c)

SpecRegister == InitRegister /\ [][NextRegister]_vars

-----------------------------------------------------------------------------
(* Properties *)

\* The tier table of the specification (section 4.2).
TierTable(v) ==
    CASE v < 3 -> 0
      [] 3 <= v /\ v < 10 -> 1
      [] 10 <= v /\ v < 20 -> 2
      [] v >= 20 -> 3

Done == {c \in DOMAIN pc : pc[c] = "done"}
AllReturned == Done # {} /\ \A c \in DOMAIN pc : pc[c] \in {"idle", "done"}

RECURSIVE SumVisits(_, _)
SumVisits(coll, user_id) ==
    IF coll = <<>> THEN 0
    ELSE (IF Head(coll).user_id = user_id THEN Head(coll).visits ELSE 0)
         + SumVisits(Tail(coll), user_id)

\* C1: once all N >= 1 concurrent log_visit requests of one user (no Impact
\* record before) have returned, the user has one Impact record and its
\* visits count is N, whatever the interleaving of the store steps.
C1_NoLostIncrements ==
    AllReturned =>
        /\ Cardinality(Matching(impact, "u1")) = 1
        /\ impact[FindOne(impact, "u1")].visits = Cardinality(Done)
        /\ \A c \in Done : result[c].status = 200

C1_Witness ==
    /\ \A c \in DOMAIN pc : pc[c] = "done"
    /\ Cardinality(DOMAIN pc) >= 3
    /\ impact[1].visits = Cardinality(DOMAIN pc)

\* C2: once all N >= 1 concurrent log_visit requests of one user have
\* returned, the stored terra_level is the tier of the stored visits count N.
C2_NoStaleTier ==
    AllReturned =>
        impact[FindOne(impact, "u1")].terra_level =
            TierTable(impact[FindOne(impact, "u1")].visits)

\* C3: a log_visit request whose business lookup finds no Business (the
\* lookup finds one exactly when the id resolves to a stored Business) returns
\* 404, and neither its lookup nor its return changes the visit or the impact
\* collection; a request goes past the check only with a Business found.
C3_NotFoundChangesNothing ==
    [][\A c \in DOMAIN pc :
        /\ (pc[c] = "idle" /\ pc'[c] = "check_business") =>
              /\ visit' = visit /\ impact' = impact /\ business' = business
              /\ (local'[c].bdoc.kind = "none") <=>
                    ~\E i \in 1..Len(business) :
                        business[i].id = ObjectId(req'[c].business_id)
        /\ (pc[c] = "check_business" /\ local[c].bdoc.kind = "none"
                /\ pc'[c] # "check_business") =>
              /\ pc'[c] = "done"
              /\ result'[c] = Response("log_visit", 404, NoDoc)
              /\ visit' = visit /\ impact' = impact
        /\ (pc[c] = "check_business" /\ pc'[c] = "create_visit") =>
              local[c].bdoc.kind = "business"
      ]_vars

C3_Witness ==
    \E c \in DOMAIN pc :
        /\ result[c] = Response("log_visit", 404, NoDoc)
        /\ impact # <<>>
        /\ visit # <<>>

\* C4: the impact collection holds at most one record per user_id.
C4_OneImpactPerUser ==
    \A u \in Users : Cardinality(Matching(impact, u)) <= 1

\* C5: without a store, log_visit and get_impact answer 500, never a success.
C5_UnavailableSurfaced ==
    \A c \in DOMAIN pc :
        (~db_up /\ pc[c] = "done" /\ result[c].op \in {"log_visit", "get_impact"})
            => result[c].status = 500

\* C6: no step changes the username (or the user_id) of a stored Impact
\* record, and no record is removed; a record created by log_visit carries
\* that request's username, one created by get_impact the supplied username
\* or "Guest".
C6_UsernameFirstWriteWins ==
    [][/\ Len(impact') >= Len(impact)
       /\ \A i \in 1..Len(impact) :
            /\ impact'[i].username = impact[i].username
            /\ impact'[i].user_id = impact[i].user_id
       /\ \A c \in DOMAIN pc :
            /\ (pc[c] = "upsert" /\ pc'[c] = "read" /\ Len(impact') > Len(impact)) =>
                  impact'[Len(impact')].username = req[c].username
            /\ (pc[c] = "create_impact" /\ result'[c].status = 200) =>
                  impact'[Len(impact')].username =
                      (IF req[c].username \in {None, ""} THEN "Guest"
                       ELSE req[c].username)
      ]_vars

\* A log_visit request has incremented a record that carries another username.
C6_Witness ==
    \E c \in DOMAIN pc :
        /\ pc[c] = "read"
        /\ FindOne(impact, req[c].user_id) # 0
        /\ impact[FindOne(impact, req[c].user_id)].username # req[c].username
        /\ impact[FindOne(impact, req[c].user_id)].visits >= 1

\* C7: of log_visit requests run one after another for a user without an
\* Impact record, the k-th returns visits = k, eco_points = 10k,
\* community_impact = k and terra_level = the tier of k, and that is the
\* stored record once it has returned.
C7_SequentialAccumulation ==
    /\ \A k \in Done :
          /\ result[k].status = 200
          /\ result[k].body.kind = "impact"
          /\ result[k].body.visits = k
          /\ result[k].body.eco_points = 10 * k
          /\ result[k].body.community_impact = k
          /\ result[k].body.terra_level = TierTable(k)
    /\ AllReturned =>
          /\ Len(impact) = 1
          /\ impact[1] = result[Cardinality(Done)].body

C7_Witness ==
    \E k \in Done :
        /\ k >= 20
        /\ result[k].body.visits = k
        /\ result[k].body.terra_level = 3
        /\ impact[1].eco_points = 10 * k

\* C8: the level log_visit computes from a visits count v >= 0 is the tier
\* table's (0 below 3, 1 below 10, 2 below 20, 3 from 20), lies in 0..3, and
\* is no lower for a higher count.
C8_TierRule ==
    /\ \A c \in DOMAIN pc :
          pc[c] = "set_level" =>
              /\ local[c].visits >= 0
              /\ local[c].level = TierTable(local[c].visits)
              /\ local[c].level \in 0..3
    /\ \A c, d \in DOMAIN pc :
          (pc[c] = "set_level" /\ pc[d] = "set_level"
              /\ local[c].visits <= local[d].visits) =>
                  local[c].level <= local[d].level

C8_Witness ==
    /\ pc[1] = "set_level" /\ local[1].visits = 9 /\ local[1].level = 1
    /\ pc[2] = "set_level" /\ local[2].visits = 10 /\ local[2].level = 2

\* C9 as claimed: with a store, register_business on any non-empty checklist
\* stores a Business with eco_score = 60 + 8 * (true entries).
C9_AnyChecklistPersists ==
    [][\A c \in DOMAIN pc :
        (db_up /\ pc[c] = "create_business" /\ req[c].eco_checks # <<>>
            /\ pc'[c] # "create_business") =>
              /\ pc'[c] = "find_business"
              /\ Len(business') = Len(business) + 1
              /\ business'[Len(business')].eco_score =
                     60 + 8 * CountTrue(req[c].eco_checks)
      ]_vars

\* C9 as amended: with a store, register_business on a non-empty checklist
\* with at most 5 true entries stores a Business with that checklist and
\* eco_score = 60 + 8 * (true entries) and returns it; with 6 or more true
\* entries the request fails and stores nothing; every stored Business has
\* its eco_score in 0..100.
C9_ScoreWithinRange ==
    /\ [](\A i \in 1..Len(business) :
            business[i].eco_score >= 0 /\ business[i].eco_score <= 100)
    /\ [][\A c \in DOMAIN pc :
          /\ (db_up /\ pc[c] = "create_business" /\ req[c].eco_checks # <<>>
                  /\ pc'[c] # "create_business") =>
                IF CountTrue(req[c].eco_checks) <= 5
                THEN /\ pc'[c] = "find_business"
                     /\ business' = Append(business,
                            [kind |-> "business", id |-> Len(business) + 1,
                             name |-> "Shop", eco_checks |-> req[c].eco_checks,
                             eco_score |-> 60 + 8 * CountTrue(req[c].eco_checks)])
                ELSE /\ business' = business
                     /\ result'[c].status = 500
          /\ (pc[c] = "find_business" /\ req[c].eco_checks # <<>>
                  /\ pc'[c] = "done") =>
                /\ result'[c].status = 200
                /\ result'[c].body.eco_checks = req[c].eco_checks
                /\ result'[c].body.eco_score = 60 + 8 * CountTrue(req[c].eco_checks)
                /\ \E i \in 1..Len(business) :
                      /\ OidStr(business[i].id) = result'[c].body.id
                      /\ business[i].eco_score = result'[c].body.eco_score
        ]_vars

C9_Witness ==
    /\ result[1].op = "register_business"
    /\ result[1].status = 200
    /\ result[1].body.eco_score = 100
    /\ Len(result[1].body.eco_checks) = 6
    /\ business[Len(business)].eco_score = 100

\* C10: Visit records are never removed or modified, and the visits counted
\* in a user's Impact records never exceed the user's stored Visit records.
C10_VisitBeforeCounter ==
    /\ [](\A u \in Users : SumVisits(impact, u) <= Cardinality(Matching(visit, u)))
    /\ [][/\ Len(visit') >= Len(visit)
           /\ \A i \in 1..Len(visit) : visit'[i] = visit[i]]_vars

\* A store failure ended a log_visit request after its Visit was stored and
\* before the counters were updated.
C10_Witness ==
    \E c \in DOMAIN pc :
        /\ result[c] = Response("log_visit", 500, NoDoc)
        /\ db_up
        /\ Len(visit) = 1
        /\ SumVisits(impact, visit[1].user_id) = 0

=============================================================================
